---- MODULE Spec2Model ----
(***************************************************************************)
(* A model of the Sudoku solver of controllers/sudoku-solver.js and of     *)
(* the /api/check route that calls it.                                     *)
(*                                                                         *)
(* A puzzle string is a sequence of one-character strings.  JavaScript     *)
(* indexes from 0 and TLA+ sequences from 1: At(s, i) is the JavaScript    *)
(* s[i], and "undefined" is what an index outside the string yields.       *)
(***************************************************************************)
EXTENDS Integers, Sequences, FiniteSets, TLC

VARIABLES
    op,         \* the operation under way: "solve", "validate", "check", ...
    puzzle,     \* the puzzle string handed to the operation
    grid,       \* solve: the array [...puzzleString] shared by all frames
    stack,      \* solve: the frames of the recursive calls, innermost last
    result,     \* the value the operation returned (NoResult before it returns)
    args,       \* check: the row letter, column number and value
    gen,        \* generate: its locals puzzle, hidden, cursor and digits
    hist        \* solve: what the search has done so far (history only)

vars == <<op, puzzle, grid, stack, result, args, gen, hist>>

----------------------------------------------------------------------------
(* Characters and conversions *)

DigitChars == <<"0", "1", "2", "3", "4", "5", "6", "7", "8", "9">>

RowLetters == <<"A", "B", "C", "D", "E", "F", "G", "H", "I">>

\* The characters of the code units 64 .. 74: the row letters and the two
\* characters next to them.
CodeUnits == <<"@", "A", "B", "C", "D", "E", "F", "G", "H", "I", "J">>

Range(s) == { s[i] : i \in DOMAIN s }

IndexOf(s, x) == CHOOSE i \in DOMAIN s : s[i] = x /\ \A j \in 1..(i - 1) : s[j] # x

\* `${value}` for a number value of 0 .. 9.
Template(value) == DigitChars[value + 1]

\* +ch for a digit character ch.
ToNumber(ch) == IndexOf(DigitChars, ch) - 1

\* rowLetter.charCodeAt().
CharCodeAt(ch) == 63 + IndexOf(CodeUnits, ch)

\* s[i] of JavaScript.
At(s, i) == IF i + 1 \in DOMAIN s THEN s[i + 1] ELSE "undefined"

\* s.slice(from, to) for 0 <= from <= to.
Slice(s, from, to) ==
    LET hi == IF to > Len(s) THEN Len(s) ELSE to
    IN  IF from >= hi THEN <<>> ELSE SubSeq(s, from + 1, hi)

\* s.indexOf(x), zero-based, -1 when x is absent.
JsIndexOf(s, x) == IF x \in Range(s) THEN IndexOf(s, x) - 1 ELSE -1

Includes(s, x) == x \in Range(s)

----------------------------------------------------------------------------
(* Grid model *)

GridSide == 9

RegionSide == 3

PuzzleLength == 81

\* The sentinel toBaseZeroCoordinate returns for a coordinate off the grid.
InvalidCoordinate == <<>>

toBaseZeroCoordinate(rowLetter, colNumber) ==
    LET rowCoord == CharCodeAt(rowLetter) - CharCodeAt("A")
        colCoord == colNumber - 1
    IN  IF rowCoord < 0 \/ rowCoord > 8 \/ colCoord < 0 \/ colCoord > 8
        THEN InvalidCoordinate
        ELSE <<colCoord, rowCoord, GridSide * rowCoord + colCoord>>

\* toLetterNumberCoordinate with a bug: the column is left zero-based.
toLetterNumberCoordinateZeroBased(cellNumber) ==
    <<RowLetters[(cellNumber \div GridSide) + 1], cellNumber % GridSide>>

toLetterNumberCoordinate(cellNumber) ==
    <<RowLetters[(cellNumber \div GridSide) + 1], (cellNumber % GridSide) + 1>>

----------------------------------------------------------------------------
(* Validator *)

ValidChars == {"."} \cup Range(DigitChars)

\* validPuzzleRegex with a bug: the class [\.1-9], which leaves 0 out.
validPuzzleRegexNoZero(puzzleString) ==
    /\ Len(puzzleString) = 81
    /\ \A i \in DOMAIN puzzleString :
          puzzleString[i] \in ({"."} \cup Range(DigitChars)) \ {"0"}

\* /^[\.\d]{81}$/.test(puzzleString)
validPuzzleRegex(puzzleString) ==
    /\ Len(puzzleString) = PuzzleLength
    /\ \A i \in DOMAIN puzzleString : puzzleString[i] \in ValidChars

\* validate with a bug: the characters are tested before the length.
validateCharsFirst(puzzleString) ==
    IF puzzleString = <<>>
    THEN [ok |-> FALSE, error |-> "No puzzle string given."]
    ELSE IF \E i \in DOMAIN puzzleString :
                puzzleString[i] \notin {"."} \cup Range(DigitChars)
    THEN [ok |-> FALSE, error |-> "Invalid characters in puzzle"]
    ELSE IF Len(puzzleString) # 81
    THEN [ok |-> FALSE, error |-> "Expected puzzle to be 81 characters long"]
    ELSE [ok |-> TRUE]

validate(puzzleString) ==
    IF puzzleString = <<>>
    THEN [ok |-> FALSE, error |-> "No puzzle string given."]
    ELSE IF Len(puzzleString) # PuzzleLength
    THEN [ok |-> FALSE, error |-> "Expected puzzle to be 81 characters long"]
    ELSE IF ~validPuzzleRegex(puzzleString)
    THEN [ok |-> FALSE, error |-> "Invalid characters in puzzle"]
    ELSE [ok |-> TRUE]

----------------------------------------------------------------------------
(* Placement checker.  vs is `${value}`, the string each check looks for:  *)
(* a caller holding a number passes Template(value), a caller holding a    *)
(* string (solve's candidates) passes it as it is.                         *)

\* s without its element at the zero-based index i; i = -1 cannot happen
\* where the code splices, since the value was just found at the target.
RemoveAt(s, i) == Slice(s, 0, i) \o Slice(s, i + 1, Len(s))

\* checkRowPlacement with a bug: the target cell's own value is not left
\* out of the row.
checkRowPlacementNoExclusion(puzzleString, row, column, vs) ==
    LET coord     == toBaseZeroCoordinate(row, column)
        rowStart  == GridSide * coord[2]
        rowString == Slice(puzzleString, rowStart, rowStart + GridSide)
    IN  [valid |-> ~Includes(rowString, vs)]

checkRowPlacement(puzzleString, row, column, vs) ==
    LET coord     == toBaseZeroCoordinate(row, column)
        rowStart  == GridSide * coord[2]
        rowString == Slice(puzzleString, rowStart, rowStart + GridSide)
        kept      == IF At(puzzleString, coord[3]) = vs
                     THEN RemoveAt(rowString, JsIndexOf(rowString, vs))
                     ELSE rowString
    IN  [valid |-> ~Includes(kept, vs)]

checkColPlacement(puzzleString, row, column, vs) ==
    LET coord    == toBaseZeroCoordinate(row, column)
        colStart == coord[1]
        kept     == { i \in 0..(GridSide - 1) :
                        ~(coord[3] = colStart + i * GridSide
                            /\ At(puzzleString, coord[3]) = vs) }
        colArray == { At(puzzleString, colStart + i * GridSide) : i \in kept }
    IN  [valid |-> ~(vs \in colArray)]

\* checkRegionPlacement with a bug: x and y are swapped in the region's
\* top-left corner.
checkRegionPlacementSwapped(puzzleString, row, column, vs) ==
    LET coord == toBaseZeroCoordinate(row, column)
        x     == coord[1]
        y     == coord[2]
        cell  == coord[3]
        regionTopLeft == <<(y \div RegionSide) * RegionSide,
                           (x \div RegionSide) * RegionSide>>
        regionCell(i, j) ==
            GridSide * (regionTopLeft[2] + i) + (regionTopLeft[1] + j)
        kept == { ij \in (0..(RegionSide - 1)) \X (0..(RegionSide - 1)) :
                    ~(cell = regionCell(ij[1], ij[2])
                        /\ At(puzzleString, regionCell(ij[1], ij[2])) = vs) }
        regionArray == { At(puzzleString, regionCell(ij[1], ij[2])) : ij \in kept }
    IN  [valid |-> ~(vs \in regionArray)]

checkRegionPlacement(puzzleString, row, column, vs) ==
    LET coord == toBaseZeroCoordinate(row, column)
        x     == coord[1]
        y     == coord[2]
        cell  == coord[3]
        regionTopLeft == <<(x \div RegionSide) * RegionSide,
                           (y \div RegionSide) * RegionSide>>
        regionCell(i, j) ==
            GridSide * (regionTopLeft[2] + i) + (regionTopLeft[1] + j)
        kept == { ij \in (0..(RegionSide - 1)) \X (0..(RegionSide - 1)) :
                    ~(cell = regionCell(ij[1], ij[2])
                        /\ At(puzzleString, regionCell(ij[1], ij[2])) = vs) }
        regionArray == { At(puzzleString, regionCell(ij[1], ij[2])) : ij \in kept }
    IN  [valid |-> ~(vs \in regionArray)]

checkPlacement(puzzleString, row, column, vs) ==
    [valid |->
        /\ checkRowPlacement(puzzleString, row, column, vs).valid = TRUE
        /\ checkColPlacement(puzzleString, row, column, vs).valid = TRUE
        /\ checkRegionPlacement(puzzleString, row, column, vs).valid = TRUE]

----------------------------------------------------------------------------
(* Solver *)

\* What getNextEmptyCell returns when the grid has no empty cell (false).
NoCell == [index |-> -1]

\* possibleFrom with a bug: a value is kept when the row check alone
\* accepts it.
RECURSIVE possibleFromRowOnly(_, _, _, _)
possibleFromRowOnly(puzzleString, row, col, v) ==
    IF v > 9 THEN <<>>
    ELSE (IF checkRowPlacement(puzzleString, row, col, Template(v)).valid
          THEN <<Template(v)>> ELSE <<>>)
         \o possibleFromRowOnly(puzzleString, row, col, v + 1)

\* possibleFrom with a bug: the values are collected from 9 down to 1.
RECURSIVE possibleFromDescending(_, _, _, _)
possibleFromDescending(puzzleString, row, col, v) ==
    IF v > 9 THEN <<>>
    ELSE possibleFromDescending(puzzleString, row, col, v + 1)
         \o (IF checkPlacement(puzzleString, row, col, Template(v)).valid
             THEN <<Template(v)>> ELSE <<>>)

\* The indices v - 1 of the values v = 1 .. 9 that pass the combined check,
\* ascending, as the `${v}` strings the code pushes.
RECURSIVE possibleFrom(_, _, _, _)
possibleFrom(puzzleString, row, col, v) ==
    IF v > 9 THEN <<>>
    ELSE (IF checkPlacement(puzzleString, row, col, Template(v)).valid
          THEN <<Template(v)>> ELSE <<>>)
         \o possibleFrom(puzzleString, row, col, v + 1)

getNextEmptyCell(puzzleString) ==
    IF ~Includes(puzzleString, ".") THEN NoCell
    ELSE LET i   == JsIndexOf(puzzleString, ".")
             rc  == toLetterNumberCoordinate(i)
         IN  [row |-> rc[1], col |-> rc[2], index |-> i,
              possible |-> possibleFrom(puzzleString, rc[1], rc[2], 1)]

NoResult == [pending |-> TRUE]

\* A call of solve that has not run yet.
\* entry is history: the grid as the call found it.
EnterFrame == [pc |-> "enter", row |-> "A", col |-> 0, index |-> -1,
               possible |-> <<>>, k |-> 0, entry |-> <<>>]

\* Nothing has happened yet: no call has failed, no grid has been complete.
NoHist == [failed |-> FALSE, firstFull |-> <<>>]

\* History kept beside the search: whether a call that had placed a digit
\* returned with an empty cell left, and the first complete grid reached.
Note(newGrid, failedNow) ==
    hist' = [failed    |-> hist.failed \/ failedNow,
             firstFull |-> IF /\ hist.firstFull = <<>>
                              /\ Len(newGrid) = PuzzleLength
                              /\ \A i \in 1..Len(newGrid) : newGrid[i] # "."
                           THEN newGrid
                           ELSE hist.firstFull]

Top == stack[Len(stack)]

Pop == SubSeq(stack, 1, Len(stack) - 1)

\* The frame on top returns retval: the caller of a recursive call drops
\* the value, the caller of the first call receives it.
Return(retval) ==
    /\ stack' = Pop
    /\ result' = IF Len(stack) = 1 THEN retval ELSE result

\* SolveBegin with a bug: a grid without an empty cell is reported as
\* unsolvable.
SolveBeginNoEmptyIsError ==
    /\ op = "solve"
    /\ stack # <<>>
    /\ Top.pc = "enter"
    /\ LET validateFirst == Len(stack) = 1
           validation    == validate(puzzle)
       IN  IF validateFirst /\ validation.ok = FALSE
           THEN /\ Return([error |-> validation.error])
                /\ UNCHANGED <<grid, hist>>
           ELSE LET array == IF validateFirst THEN puzzle ELSE grid
                    nextEmptyCell == getNextEmptyCell(array)
                IN  /\ grid' = array
                    /\ Note(array, FALSE)
                    /\ IF nextEmptyCell = NoCell
                       THEN Return([error |-> "Puzzle cannot be solved"])
                       ELSE /\ stack' = [stack EXCEPT ![Len(stack)] =
                                   [pc |-> "loop",
                                    row |-> nextEmptyCell.row,
                                    col |-> nextEmptyCell.col,
                                    index |-> nextEmptyCell.index,
                                    possible |-> nextEmptyCell.possible,
                                    k |-> 0,
                                    entry |-> array]]
                            /\ UNCHANGED result
    /\ UNCHANGED <<op, puzzle, args, gen>>

\* Lines 365-393: validation (first call only), the conversion to an array,
\* and the search for the next empty cell.
SolveBegin ==
    /\ op = "solve"
    /\ stack # <<>>
    /\ Top.pc = "enter"
    /\ LET validateFirst == Len(stack) = 1
           validation    == validate(puzzle)
       IN  IF validateFirst /\ validation.ok = FALSE
           THEN /\ Return([error |-> validation.error])
                /\ UNCHANGED <<grid, hist>>
           ELSE LET array == IF validateFirst THEN puzzle ELSE grid
                    nextEmptyCell == getNextEmptyCell(array)
                IN  /\ grid' = array
                    /\ Note(array, FALSE)
                    /\ IF nextEmptyCell = NoCell
                       THEN Return([solution |-> array])
                       ELSE /\ stack' = [stack EXCEPT ![Len(stack)] =
                                   [pc |-> "loop",
                                    row |-> nextEmptyCell.row,
                                    col |-> nextEmptyCell.col,
                                    index |-> nextEmptyCell.index,
                                    possible |-> nextEmptyCell.possible,
                                    k |-> 0,
                                    entry |-> array]]
                            /\ UNCHANGED result
    /\ UNCHANGED <<op, puzzle, args, gen>>

\* SolvePlaceSingle with a bug: solve calls itself without placing the
\* candidate.
SolvePlaceSingleNoWrite ==
    /\ op = "solve"
    /\ stack # <<>>
    /\ Top.pc = "loop"
    /\ Len(Top.possible) = 1
    /\ UNCHANGED <<grid, hist>>
    /\ stack' = Append([stack EXCEPT ![Len(stack)].pc = "after"], EnterFrame)
    /\ UNCHANGED <<op, puzzle, result, args, gen>>

\* Lines 397-399: the only candidate is placed and solve calls itself.
SolvePlaceSingle ==
    /\ op = "solve"
    /\ stack # <<>>
    /\ Top.pc = "loop"
    /\ Len(Top.possible) = 1
    /\ grid' = [grid EXCEPT ![Top.index + 1] = Top.possible[1]]
    /\ Note(grid', FALSE)
    /\ stack' = Append([stack EXCEPT ![Len(stack)].pc = "after"], EnterFrame)
    /\ UNCHANGED <<op, puzzle, result, args, gen>>

\* Lines 402-407: one turn of the loop over the candidates.
SolveTryCandidate ==
    /\ op = "solve"
    /\ stack # <<>>
    /\ Top.pc = "loop"
    /\ Len(Top.possible) # 1
    /\ Top.k < Len(Top.possible)
    /\ LET value == Top.possible[Top.k + 1]
           moved == [stack EXCEPT ![Len(stack)].k = Top.k + 1]
       IN  IF checkPlacement(grid, Top.row, Top.col, value).valid = TRUE
           THEN /\ grid' = [grid EXCEPT ![Top.index + 1] = value]
                /\ Note(grid', FALSE)
                /\ stack' = Append(moved, EnterFrame)
           ELSE /\ stack' = moved
                /\ UNCHANGED <<grid, hist>>
    /\ UNCHANGED <<op, puzzle, result, args, gen>>

\* SolveFinish with a bug: the cell is never cleared on the way back.
SolveFinishKeepsCell ==
    /\ op = "solve"
    /\ stack # <<>>
    /\ \/ Top.pc = "after"
       \/ Top.pc = "loop" /\ Len(Top.possible) # 1 /\ Top.k = Len(Top.possible)
    /\ UNCHANGED grid
    /\ Note(grid, Includes(grid, ".") /\ Top.possible # <<>>)
    /\ IF Includes(grid, ".")
       THEN Return([error |-> "Puzzle cannot be solved"])
       ELSE Return([solution |-> grid])
    /\ UNCHANGED <<op, puzzle, args, gen>>

\* SolveFinish with a bug: the grid is returned without the test for an
\* empty cell.
SolveFinishAlwaysSolution ==
    /\ op = "solve"
    /\ stack # <<>>
    /\ \/ Top.pc = "after"
       \/ Top.pc = "loop" /\ Len(Top.possible) # 1 /\ Top.k = Len(Top.possible)
    /\ LET next    == getNextEmptyCell(grid)
           cleared == IF next # NoCell
                      THEN [grid EXCEPT ![Top.index + 1] = "."]
                      ELSE grid
       IN  /\ grid' = cleared
           /\ Note(cleared, Includes(cleared, ".") /\ Top.possible # <<>>)
           /\ Return([solution |-> cleared])
    /\ UNCHANGED <<op, puzzle, args, gen>>

\* Lines 410-419: the cell is cleared when the grid still has an empty
\* cell, and the call returns.
SolveFinish ==
    /\ op = "solve"
    /\ stack # <<>>
    /\ \/ Top.pc = "after"
       \/ Top.pc = "loop" /\ Len(Top.possible) # 1 /\ Top.k = Len(Top.possible)
    /\ LET next    == getNextEmptyCell(grid)
           cleared == IF next # NoCell
                      THEN [grid EXCEPT ![Top.index + 1] = "."]
                      ELSE grid
       IN  /\ grid' = cleared
           /\ Note(cleared, Includes(cleared, ".") /\ Top.possible # <<>>)
           /\ IF Includes(cleared, ".")
              THEN Return([error |-> "Puzzle cannot be solved"])
              ELSE Return([solution |-> cleared])
    /\ UNCHANGED <<op, puzzle, args, gen>>

Solve == SolveBegin \/ SolvePlaceSingle \/ SolveTryCandidate \/ SolveFinish

----------------------------------------------------------------------------
(* Completed-puzzle checker *)

\* The axes whose check of cell i fails, in the order the code pushes them
\* (lines 185-199); the value looked for is `${+puzzle[i]}`.
cellConflicts(puzzleString, i) ==
    LET rc == toLetterNumberCoordinate(i)
        vs == Template(ToNumber(At(puzzleString, i)))
        cr == checkRowPlacement(puzzleString, rc[1], rc[2], vs)
        cc == checkColPlacement(puzzleString, rc[1], rc[2], vs)
        cg == checkRegionPlacement(puzzleString, rc[1], rc[2], vs)
    IN  (IF cr.valid = FALSE THEN <<"row">> ELSE <<>>)
        \o (IF cc.valid = FALSE THEN <<"column">> ELSE <<>>)
        \o (IF cg.valid = FALSE THEN <<"region">> ELSE <<>>)

\* The loop of lines 175-208 returns at the first cell that is blank or
\* has a conflict.
checkSolve(puzzleString) ==
    LET validation == validate(puzzleString)
        stops(i) == \/ At(puzzleString, i) = "."
                    \/ Len(cellConflicts(puzzleString, i)) > 0
        stopping == { i \in 0..(Len(puzzleString) - 1) : stops(i) }
    IN  IF validation.ok = FALSE
        THEN [solved |-> FALSE, error |-> validation.error]
        ELSE IF stopping = {}
        THEN [solved |-> TRUE]
        ELSE LET i  == CHOOSE j \in stopping : \A h \in stopping : j <= h
                 rc == toLetterNumberCoordinate(i)
             IN  IF At(puzzleString, i) = "."
                 THEN [solved |-> FALSE, error |-> "Puzzle is not solved"]
                 ELSE [solved |-> FALSE,
                       error |-> <<"Cell '", rc[1], Template(rc[2]),
                                   "' contains conflicts.">>,
                       conflict |-> cellConflicts(puzzleString, i)]

----------------------------------------------------------------------------
(* The puzzle strings the operations are run on *)

\* The puzzle of the unit test "Valid puzzle strings pass the solver."
TestPuzzle ==
    <<".", ".", "9", ".", ".", "5", ".", "1", ".">>
    \o <<"8", "5", ".", "4", ".", ".", ".", ".", "2">>
    \o <<"4", "3", "2", ".", ".", ".", ".", ".", ".">>
    \o <<"1", ".", ".", ".", "6", "9", ".", "8", "3">>
    \o <<".", "9", ".", ".", ".", ".", ".", "6", ".">>
    \o <<"6", "2", ".", "7", "1", ".", ".", ".", "9">>
    \o <<".", ".", ".", ".", ".", ".", "1", "9", "4">>
    \o <<"5", ".", ".", ".", ".", "4", ".", "3", "7">>
    \o <<".", "4", ".", "3", ".", ".", "6", ".", ".">>

\* The solution that test expects.
TestSolution ==
    <<"7", "6", "9", "2", "3", "5", "4", "1", "8">>
    \o <<"8", "5", "1", "4", "9", "6", "3", "7", "2">>
    \o <<"4", "3", "2", "1", "7", "8", "9", "5", "6">>
    \o <<"1", "7", "4", "5", "6", "9", "2", "8", "3">>
    \o <<"3", "9", "5", "8", "4", "2", "7", "6", "1">>
    \o <<"6", "2", "8", "7", "1", "3", "5", "4", "9">>
    \o <<"2", "8", "3", "6", "5", "7", "1", "9", "4">>
    \o <<"5", "1", "6", "9", "2", "4", "8", "3", "7">>
    \o <<"9", "4", "7", "3", "8", "1", "6", "2", "5">>

\* The cells 0 .. WindowLen - 1 are the ones an input may differ in from
\* the string it is derived from.
WindowLen == 6

\* "D" stands for the characters validate rejects.
InputChars == ValidChars \cup {"D"}

BaseStrings == {TestPuzzle, TestSolution}

\* A base string, or one with a single cell of the window replaced.
OneCellEdits(base) ==
    {base} \cup
    { [base EXCEPT ![i] = ch] : i \in 1..WindowLen, ch \in InputChars }

\* A string one character short and one a character too long.
WrongLengths(base) ==
    { SubSeq(base, 1, Len(base) - 1), Append(base, ".") }

\* The solution with its first cell emptied and two cells changed so that
\* the row, the column and the region of the empty cell each lack both 6
\* and 7 (the givens repeat 9 in row A and 8 in column 1).
RepeatedGivens == [TestSolution EXCEPT ![1] = ".", ![2] = "9", ![46] = "8"]

SolveInputs ==
    UNION { OneCellEdits(base) \cup WrongLengths(base) : base \in BaseStrings }
    \cup {RepeatedGivens}

NoArgs == <<>>

NoGen == <<>>

Init ==
    /\ op = "solve"
    /\ puzzle \in SolveInputs
    /\ grid = <<>>
    /\ stack = <<EnterFrame>>
    /\ result = NoResult
    /\ args = NoArgs
    /\ gen = NoGen
    /\ hist = NoHist

Next == SolveBegin \/ SolvePlaceSingle \/ SolveTryCandidate \/ SolveFinish

Spec == Init /\ [][Next]_vars

----------------------------------------------------------------------------
(* Generator *)

\* The values getRandomValue(min, max) can return.
getRandomValue(min, max) == min..max

\* puzzle.join("") of the array of numbers under construction.
Join(numbers) == [i \in DOMAIN numbers |-> Template(numbers[i])]

FreshDigits == <<1, 2, 3, 4, 5, 6, 7, 8, 9>>

\* The random source.  Left alone it draws, for every cell, the digit and
\* the hiding decision that build TestPuzzle out of TestSolution; while
\* gen.lucky holds, one call of a run may return any other value instead.
ReferenceIndex(digits, cursor) ==
    LET digit == ToNumber(TestSolution[cursor + 1])
    IN  IF Includes(digits, digit) THEN JsIndexOf(digits, digit) ELSE 0

ReferenceCoin(cursor) == IF TestPuzzle[cursor + 1] = "." THEN 1000 ELSE 1

\* The hiding draw is sampled at the ends of its range and on both sides
\* of the threshold.
CoinSamples == {1, 499, 500, 1000} \cap getRandomValue(1, 1000)

Draws(choices, reference, lucky) ==
    { [value |-> v, lucky |-> lucky /\ v = reference] :
        v \in IF lucky THEN choices ELSE {reference} }

\* canBePlaced with a bug: the drawn digit is pushed without the check.
canBePlacedUnchecked(numbers, row, col, digit) == TRUE

\* canBePlaced with a bug: only the row of the cell is checked.
canBePlacedRowOnly(numbers, row, col, digit) ==
    checkRowPlacement(Join(numbers), row, col, Template(digit)).valid = TRUE

\* Lines 117-118: the drawn digit against the cells filled so far.
canBePlaced(numbers, row, col, digit) ==
    checkPlacement(Join(numbers), row, col, Template(digit)).valid = TRUE

\* splice with a bug: every digit still in the pool is removed.
spliceAll(digits, randomIndex) == <<>>

\* Line 132: digits.splice(randomIndex, 1).
splice(digits, randomIndex) == RemoveAt(digits, randomIndex)

\* Lines 97-152: one turn of the inner loop, with what the outer loop does
\* after the break (restart from cell 0, or advance the cursor).
GenDraw ==
    /\ op = "generate"
    /\ gen.cursor < PuzzleLength
    /\ LET rc == toLetterNumberCoordinate(gen.cursor)
       IN  \E draw \in Draws(getRandomValue(0, Len(gen.digits) - 1),
                             ReferenceIndex(gen.digits, gen.cursor), gen.lucky) :
             LET randomIndex == draw.value
                 digit       == gen.digits[randomIndex + 1]
                 placed      == canBePlaced(gen.puzzle, rc[1], rc[2], digit)
                 spliced     == splice(gen.digits, randomIndex)
             IN  IF placed
                 THEN \E coin \in Draws(CoinSamples, ReferenceCoin(gen.cursor),
                                        draw.lucky) :
                        LET shouldBeHidden == coin.value >= 500
                        IN  gen' = [gen EXCEPT
                                !.puzzle = Append(gen.puzzle, digit),
                                !.hidden = IF shouldBeHidden
                                           THEN Append(gen.hidden, gen.cursor)
                                           ELSE gen.hidden,
                                !.cursor = gen.cursor + 1,
                                !.digits = FreshDigits,
                                !.lucky  = coin.lucky]
                 ELSE IF Len(spliced) = 0
                 THEN gen' = [gen EXCEPT
                                !.puzzle = <<>>,
                                !.hidden = <<>>,
                                !.cursor = 0,
                                !.digits = FreshDigits,
                                !.lucky  = draw.lucky,
                                !.restarted = TRUE]
                 ELSE gen' = [gen EXCEPT !.digits = spliced,
                                         !.lucky  = draw.lucky]
    /\ UNCHANGED <<op, puzzle, grid, stack, result, args, hist>>

\* Lines 154-158, and lines 158-159 of the unit test "Solver can generate
\* random Sudokus that can be solved": the hidden cells are blanked, the
\* string is returned and handed to solve.
GenReturn ==
    /\ op = "generate"
    /\ gen.cursor >= PuzzleLength
    /\ LET generated == [i \in DOMAIN gen.puzzle |->
                            IF Includes(gen.hidden, i - 1)
                            THEN "." ELSE Template(gen.puzzle[i])]
       IN  /\ puzzle' = generated
           /\ op' = "solve"
           /\ stack' = <<EnterFrame>>
    /\ UNCHANGED <<grid, result, args, gen, hist>>

InitGen ==
    /\ op = "generate"
    /\ puzzle = <<>>
    /\ grid = <<>>
    /\ stack = <<>>
    /\ result = NoResult
    /\ args = NoArgs
    /\ gen = [puzzle |-> <<>>, hidden |-> <<>>, cursor |-> 0,
              digits |-> FreshDigits, lucky |-> TRUE, restarted |-> FALSE]
    /\ hist = NoHist

NextGen ==
    \/ GenDraw
    \/ GenReturn
    \/ SolveBegin
    \/ SolvePlaceSingle
    \/ SolveTryCandidate
    \/ SolveFinish

SpecGen == InitGen /\ [][NextGen]_vars

----------------------------------------------------------------------------
(* The rules of Sudoku, stated on their own: what the claims measure the   *)
(* code against.  Cells are the sequence positions 1 .. 81.                *)

Cells == 1..81

RowOf(c) == (c - 1) \div 9

ColOf(c) == (c - 1) % 9

BlockOf(c) == <<RowOf(c) \div 3, ColOf(c) \div 3>>

\* For every cell, the other cells of its row, column and 3x3 block.
PeerTable ==
    [c \in Cells |->
        { d \in Cells \ {c} :
            RowOf(d) = RowOf(c) \/ ColOf(d) = ColOf(c) \/ BlockOf(d) = BlockOf(c) }]

Peers(c) == PeerTable[c]

PlaceDigits == {"1", "2", "3", "4", "5", "6", "7", "8", "9"}

\* An 81-character string of digits 1-9 and empty markers.
IsPuzzle(p) ==
    /\ Len(p) = 81
    /\ \A c \in Cells : p[c] \in PlaceDigits \cup {"."}

\* No digit occurs twice in a row, column or block.
NoRepeat(p) ==
    \A c \in Cells : p[c] # "." => \A d \in Peers(c) : p[d] # p[c]

\* Every row, column and block holds each digit 1-9 exactly once: nine
\* cells without an empty marker and without a repeat.
IsSolvedGrid(g) ==
    /\ IsPuzzle(g)
    /\ \A c \in Cells : g[c] # "."
    /\ NoRepeat(g)

\* g fills the empty cells of p and keeps its given digits.
Completes(g, p) ==
    /\ IsSolvedGrid(g)
    /\ \A c \in Cells : p[c] # "." => g[c] = p[c]

FirstEmpty(p) == CHOOSE c \in Cells : p[c] = "." /\ \A d \in 1..(c - 1) : p[d] # "."

\* Some g completes the repeat-free puzzle p.  A digit that repeats one of
\* its peers cannot be part of a completion, so only the others are tried.
RECURSIVE CompletionExists(_)
CompletionExists(p) ==
    IF \A c \in Cells : p[c] # "." THEN TRUE
    ELSE LET c == FirstEmpty(p)
         IN  \E v \in PlaceDigits :
                /\ \A d \in Peers(c) : p[d] # v
                /\ CompletionExists([p EXCEPT ![c] = v])

HasCompletion(p) == IsPuzzle(p) /\ NoRepeat(p) /\ CompletionExists(p)

\* The first call of solve has returned.
SolveDone == op = "solve" /\ stack = <<>>

Unsolvable == [error |-> "Puzzle cannot be solved"]

----------------------------------------------------------------------------
(* Claims *)

\* C1: for a puzzle of digits 1-9 and empty cells with no repeated digit in
\* a row, column or region, solve returns a solution exactly when a valid
\* completion exists; the solution keeps the given digits and has every
\* digit once in each row, column and region; without a completion the
\* result is the error 'Puzzle cannot be solved'.
C1_SolveFindsCompletion ==
    (SolveDone /\ IsPuzzle(puzzle) /\ NoRepeat(puzzle)) =>
        IF HasCompletion(puzzle)
        THEN /\ DOMAIN result = {"solution"}
             /\ Completes(result.solution, puzzle)
        ELSE result = Unsolvable

\* C1 witness: a repeat-free puzzle with more than forty empty cells was
\* solved.
C1_Witness ==
    /\ SolveDone
    /\ IsPuzzle(puzzle) /\ NoRepeat(puzzle)
    /\ Cardinality({ c \in Cells : puzzle[c] = "." }) > 40
    /\ DOMAIN result = {"solution"}
    /\ Completes(result.solution, puzzle)

\* C2 (as claimed): whenever solve returns a solution for an input that
\* validate accepts, checkSolve of that solution is solved: true with no
\* error and no conflict field.
C2_SolutionPassesCheckSolve ==
    (SolveDone /\ validate(puzzle).ok /\ "solution" \in DOMAIN result) =>
        checkSolve(result.solution) = [solved |-> TRUE]

\* C3 (as claimed): for every 81-character puzzle of digits and empty cells
\* that has no valid completion, solve returns the error 'Puzzle cannot be
\* solved' and no solution.
C3_NoCompletionIsUnsolvable ==
    (SolveDone /\ IsPuzzle(puzzle) /\ ~HasCompletion(puzzle)) =>
        result = Unsolvable

\* C4: the result of the first solve call carries exactly one of 'solution'
\* and 'error', and a returned solution has 81 cells, none of them the
\* empty marker.
C4_SolutionOrError ==
    SolveDone =>
        /\ DOMAIN result = {"solution"} \/ DOMAIN result = {"error"}
        /\ "solution" \in DOMAIN result =>
              /\ Len(result.solution) = 81
              /\ \A c \in 1..Len(result.solution) : result.solution[c] # "."

\* C4 witness: solve returned a filled grid for a puzzle that had empty
\* cells.
C4_Witness ==
    /\ SolveDone
    /\ \E c \in DOMAIN puzzle : puzzle[c] = "."
    /\ DOMAIN result = {"solution"}
    /\ Len(result.solution) = 81
    /\ \A c \in 1..81 : result.solution[c] # "."

\* C5: solve applied to a string generate returned yields a solution, never
\* 'Puzzle cannot be solved' and never a validation error.
C5_GeneratedIsSolved ==
    (SolveDone /\ gen # NoGen) =>
        /\ DOMAIN result = {"solution"}
        /\ Completes(result.solution, puzzle)

\* C5 witness: generate built a grid other than the reference one, hid
\* some of its cells, and solve completed the string it returned.
C5_Witness ==
    /\ SolveDone /\ gen # NoGen
    /\ Join(gen.puzzle) # TestSolution
    /\ \E c \in DOMAIN puzzle : puzzle[c] = "."
    /\ DOMAIN result = {"solution"}
    /\ Completes(result.solution, puzzle)

----------------------------------------------------------------------------
(* validate on its own *)

\* Every length from the empty string to one character past a puzzle.
ValidateInputs ==
    { SubSeq(s, 1, n) :
        s \in UNION { { Append(e, ".") : e \in OneCellEdits(base) } :
                        base \in BaseStrings },
        n \in 0..(PuzzleLength + 1) }

InitValidate ==
    /\ op = "validate"
    /\ puzzle \in ValidateInputs
    /\ grid = <<>>
    /\ stack = <<>>
    /\ result = NoResult
    /\ args = NoArgs
    /\ gen = NoGen
    /\ hist = NoHist

\* solver.validate(puzzle)
Validate ==
    /\ op = "validate"
    /\ result = NoResult
    /\ result' = validate(puzzle)
    /\ UNCHANGED <<op, puzzle, grid, stack, args, gen, hist>>

NextValidate == Validate

SpecValidate == InitValidate /\ [][NextValidate]_vars

ValidateDone == op = "validate" /\ result # NoResult

WrongLength == [ok |-> FALSE, error |-> "Expected puzzle to be 81 characters long"]

\* C6 (as claimed): for every string whose length is not 81, validate
\* returns ok: false with 'Expected puzzle to be 81 characters long'.
C6_AnyOtherLengthIsWrongLength ==
    (ValidateDone /\ Len(puzzle) # 81) => result = WrongLength

\* C6 (amended): for every string that is not empty and whose length is
\* not 81, whatever its characters, validate returns ok: false with
\* 'Expected puzzle to be 81 characters long'; the empty string gets
\* 'No puzzle string given.' instead.
C6_NonEmptyOtherLengthIsWrongLength ==
    /\ (ValidateDone /\ Len(puzzle) # 81 /\ Len(puzzle) > 0) =>
            result = WrongLength
    /\ (ValidateDone /\ Len(puzzle) = 0) =>
            result = [ok |-> FALSE, error |-> "No puzzle string given."]

\* C6 witness: a string of 82 characters, one of them no puzzle character,
\* was rejected for its length.
C6_Witness ==
    /\ ValidateDone
    /\ Len(puzzle) = 82
    /\ \E i \in DOMAIN puzzle : puzzle[i] = "D"
    /\ result = WrongLength

\* C7: for a string of exactly 81 characters validate returns ok: true if
\* and only if every character is '.' or one of '0' .. '9', and otherwise
\* ok: false with 'Invalid characters in puzzle'.
C7_CharacterClass ==
    (ValidateDone /\ Len(puzzle) = 81) =>
        IF \A i \in 1..81 :
              puzzle[i] \in {".", "0", "1", "2", "3", "4", "5", "6", "7", "8", "9"}
        THEN result = [ok |-> TRUE]
        ELSE result = [ok |-> FALSE, error |-> "Invalid characters in puzzle"]

\* C7 witness: an 81-character string holding the digit 0 was accepted.
C7_Witness ==
    /\ ValidateDone
    /\ Len(puzzle) = 81
    /\ \E i \in DOMAIN puzzle : puzzle[i] = "0"
    /\ result = [ok |-> TRUE]

----------------------------------------------------------------------------
(* The placement checks on their own *)

\* The strings of the family that validate accepts.
CheckInputs == { p \in SolveInputs : validate(p).ok }

InitCheck ==
    /\ op = "check"
    /\ puzzle \in CheckInputs
    /\ grid = <<>>
    /\ stack = <<>>
    /\ result = NoResult
    /\ args = NoArgs
    /\ gen = NoGen
    /\ hist = NoHist

\* The three checks and their combination for one cell and one value.
Check ==
    /\ op = "check"
    /\ result = NoResult
    /\ \E row \in Range(RowLetters), column \in 1..9, value \in 1..9 :
        /\ args' = [row |-> row, column |-> column, value |-> value]
        /\ result' =
            [row    |-> checkRowPlacement(puzzle, row, column, Template(value)),
             column |-> checkColPlacement(puzzle, row, column, Template(value)),
             region |-> checkRegionPlacement(puzzle, row, column, Template(value)),
             placement |-> checkPlacement(puzzle, row, column, Template(value))]
    /\ UNCHANGED <<op, puzzle, grid, stack, gen, hist>>

NextCheck == Check

SpecCheck == InitCheck /\ [][NextCheck]_vars

CheckDone == op = "check" /\ result # NoResult

\* The cell args names, as a position 1 .. 81 of the string, and the
\* character of the value.
LetterIndex(letter) ==
    CHOOSE r \in 0..8 : <<"A", "B", "C", "D", "E", "F", "G", "H", "I">>[r + 1] = letter

TargetCell == 9 * LetterIndex(args.row) + args.column

ValueChar == <<"1", "2", "3", "4", "5", "6", "7", "8", "9">>[args.value]

\* C8: checkRowPlacement is valid exactly when the value occurs in no cell
\* of the row other than the target cell; the value sitting at the target
\* cell is no conflict, wherever another occurrence is.
C8_RowCheck ==
    CheckDone =>
        (result.row.valid = TRUE <=>
            \A d \in Cells \ {TargetCell} :
                RowOf(d) = RowOf(TargetCell) => puzzle[d] # ValueChar)

\* C8 witness: the value sits at the target cell and nowhere else in the
\* row, and the row check is valid.
C8_Witness ==
    /\ CheckDone
    /\ puzzle[TargetCell] = ValueChar
    /\ \A d \in Cells \ {TargetCell} :
            RowOf(d) = RowOf(TargetCell) => puzzle[d] # ValueChar
    /\ result.row.valid = TRUE

\* C9: checkPlacement is valid exactly when the row, column and region
\* checks all are, which is exactly when the value occurs in none of the
\* other cells of the target's row, column and 3x3 block.
C9_CombinedCheck ==
    CheckDone =>
        /\ result.placement.valid = TRUE <=>
              /\ result.row.valid = TRUE
              /\ result.column.valid = TRUE
              /\ result.region.valid = TRUE
        /\ result.placement.valid = TRUE <=>
              \A d \in Peers(TargetCell) : puzzle[d] # ValueChar
        /\ result.column.valid = TRUE <=>
              \A d \in Cells \ {TargetCell} :
                  ColOf(d) = ColOf(TargetCell) => puzzle[d] # ValueChar
        /\ result.region.valid = TRUE <=>
              \A d \in Cells \ {TargetCell} :
                  BlockOf(d) = BlockOf(TargetCell) => puzzle[d] # ValueChar

\* C9 witness: the value is in the target's block, on another row and
\* another column, so that the region check alone makes the placement
\* invalid.
C9_Witness ==
    /\ CheckDone
    /\ result.row.valid = TRUE
    /\ result.column.valid = TRUE
    /\ result.region.valid = FALSE
    /\ result.placement.valid = FALSE

----------------------------------------------------------------------------
(* POST /api/check.  A field of the request body is a JavaScript value:    *)
(* undefined, a number, or a string (a sequence of characters).            *)

Undefined == [type |-> "undefined"]

Number(n) == [type |-> "number", num |-> n]

String(chars) == [type |-> "string", chars |-> chars]

\* !v
Falsy(v) ==
    \/ v.type = "undefined"
    \/ v.type = "number" /\ v.num = 0
    \/ v.type = "string" /\ v.chars = <<>>

NaN == [nan |-> TRUE, num |-> 0]

\* The number made of the leading digits of chars; NaN without one.
RECURSIVE digitsPrefix(_, _, _)
digitsPrefix(chars, i, acc) ==
    IF i > Len(chars) \/ ~Includes(DigitChars, chars[i])
    THEN [nan |-> i = 1, num |-> acc]
    ELSE digitsPrefix(chars, i + 1, 10 * acc + ToNumber(chars[i]))

\* parseInt(v) for a string of digits and other characters (no sign, no
\* blanks) and for a natural number.
parseInt(v) ==
    IF v.type = "number" THEN [nan |-> FALSE, num |-> v.num]
    ELSE IF v.type = "string" THEN digitsPrefix(v.chars, 1, 0)
    ELSE NaN

\* /^[A-I][1-9]$/.test(coordinate)
coordinateRegex(chars) ==
    /\ Len(chars) = 2
    /\ Includes(RowLetters, chars[1])
    /\ Includes(DigitChars, chars[2]) /\ chars[2] # "0"

\* apiCheck with a bug: a failed region check is reported as "column".
apiCheckMislabelled(body) ==
    IF Falsy(body.puzzle) \/ Falsy(body.coordinate) \/ Falsy(body.value)
    THEN [error |-> "Required field(s) missing"]
    ELSE IF body.puzzle.type # "string"
    THEN [error |-> "Puzzle must be a string"]
    ELSE IF body.coordinate.type # "string"
    THEN [error |-> "Coordinate must be a string"]
    ELSE LET value == parseInt(body.value)
         IN  IF value.nan \/ value.num < 0 \/ value.num > 9
             THEN [error |-> "Invalid value"]
             ELSE LET validation == validate(body.puzzle.chars)
                  IN  IF validation.ok = FALSE
                      THEN [error |-> validation.error]
                      ELSE IF ~coordinateRegex(body.coordinate.chars)
                      THEN [error |-> "Invalid coordinate"]
                      ELSE
    LET rowLetter    == body.coordinate.chars[1]
        columnNumber == ToNumber(body.coordinate.chars[2])
        vs           == Template(value.num)
        rowCheck     == checkRowPlacement(body.puzzle.chars, rowLetter, columnNumber, vs)
        columnCheck  == checkColPlacement(body.puzzle.chars, rowLetter, columnNumber, vs)
        regionCheck  == checkRegionPlacement(body.puzzle.chars, rowLetter, columnNumber, vs)
        conflicts    == (IF rowCheck.valid = FALSE THEN <<"row">> ELSE <<>>)
                        \o (IF columnCheck.valid = FALSE THEN <<"column">> ELSE <<>>)
                        \o (IF regionCheck.valid = FALSE THEN <<"column">> ELSE <<>>)
    IN  IF Len(conflicts) = 0
        THEN [valid |-> TRUE]
        ELSE [valid |-> FALSE, conflict |-> conflicts]

\* The handler of app.route("/api/check").post: the value res.json is
\* called with.
apiCheck(body) ==
    IF Falsy(body.puzzle) \/ Falsy(body.coordinate) \/ Falsy(body.value)
    THEN [error |-> "Required field(s) missing"]
    ELSE IF body.puzzle.type # "string"
    THEN [error |-> "Puzzle must be a string"]
    ELSE IF body.coordinate.type # "string"
    THEN [error |-> "Coordinate must be a string"]
    ELSE LET value == parseInt(body.value)
         IN  IF value.nan \/ value.num < 0 \/ value.num > 9
             THEN [error |-> "Invalid value"]
             ELSE LET validation == validate(body.puzzle.chars)
                  IN  IF validation.ok = FALSE
                      THEN [error |-> validation.error]
                      ELSE IF ~coordinateRegex(body.coordinate.chars)
                      THEN [error |-> "Invalid coordinate"]
                      ELSE
    LET rowLetter    == body.coordinate.chars[1]
        columnNumber == ToNumber(body.coordinate.chars[2])
        vs           == Template(value.num)
        rowCheck     == checkRowPlacement(body.puzzle.chars, rowLetter, columnNumber, vs)
        columnCheck  == checkColPlacement(body.puzzle.chars, rowLetter, columnNumber, vs)
        regionCheck  == checkRegionPlacement(body.puzzle.chars, rowLetter, columnNumber, vs)
        conflicts    == (IF rowCheck.valid = FALSE THEN <<"row">> ELSE <<>>)
                        \o (IF columnCheck.valid = FALSE THEN <<"column">> ELSE <<>>)
                        \o (IF regionCheck.valid = FALSE THEN <<"region">> ELSE <<>>)
    IN  IF Len(conflicts) = 0
        THEN [valid |-> TRUE]
        ELSE [valid |-> FALSE, conflict |-> conflicts]

\* The request bodies: the puzzle and the solution of the unit test, the
\* blank grids of the functional tests, strings validate rejects and values
\* that are no string; every coordinate of the grid and some strings that
\* are none; the values 0 .. 10 as numbers and some strings.
BlankGrid == [i \in 1..PuzzleLength |-> "."]

ApiPuzzles ==
    {Undefined, Number(5), String(<<>>)}
    \cup { String(p) : p \in WrongLengths(TestPuzzle) }
    \cup { String(TestPuzzle), String(TestSolution),
           String([TestPuzzle EXCEPT ![1] = "0"]),
           String([TestPuzzle EXCEPT ![1] = "D"]),
           String([BlankGrid EXCEPT ![1] = "1"]),
           String([BlankGrid EXCEPT ![1] = "1", ![21] = "1"]) }

ApiCoordinates ==
    {Undefined, Number(11), String(<<>>)}
    \cup { String(<<RowLetters[r], DigitChars[c + 1]>>) : r \in 1..9, c \in 1..9 }
    \cup { String(<<"A">>), String(<<"J", "1">>), String(<<"A", "0">>),
           String(<<"A", "1", "0">>), String(<<"1", "A">>) }

ApiValues ==
    {Undefined, String(<<>>), String(<<"D">>), String(<<"5", "D">>),
     String(<<"1", "0">>), String(<<"0">>), String(<<"1">>), String(<<"9">>)}
    \cup { Number(n) : n \in 0..10 }

InitApi ==
    /\ op = "api"
    /\ puzzle \in ApiPuzzles
    /\ grid = <<>>
    /\ stack = <<>>
    /\ result = NoResult
    /\ args = NoArgs
    /\ gen = NoGen
    /\ hist = NoHist

\* One request: args is the body, result the response.
ApiCheck ==
    /\ op = "api"
    /\ result = NoResult
    /\ \E coordinate \in ApiCoordinates, value \in ApiValues :
        LET body == [puzzle |-> puzzle, coordinate |-> coordinate, value |-> value]
        IN  /\ args' = body
            /\ result' = apiCheck(body)
    /\ UNCHANGED <<op, puzzle, grid, stack, gen, hist>>

NextApi == ApiCheck

SpecApi == InitApi /\ [][NextApi]_vars

\* A response that is no error: the request passed every validation.
ApiPassed == op = "api" /\ result # NoResult /\ "error" \notin DOMAIN result

\* The cell, the character looked for and the axes on which that character
\* occurs in another cell, for the request in args.
ApiCell == 9 * LetterIndex(args.coordinate.chars[1])
            + (CHOOSE c \in 1..9 :
                 <<"1", "2", "3", "4", "5", "6", "7", "8", "9">>[c]
                    = args.coordinate.chars[2])

ApiChar ==
    LET digits == <<"0", "1", "2", "3", "4", "5", "6", "7", "8", "9">>
    IN  IF args.value.type = "number" THEN digits[args.value.num + 1]
        ELSE args.value.chars[1]

ApiFailingAxes ==
    LET p == args.puzzle.chars
        others == Cells \ {ApiCell}
    IN  (IF \E d \in others : RowOf(d) = RowOf(ApiCell) /\ p[d] = ApiChar
         THEN {"row"} ELSE {})
        \cup (IF \E d \in others : ColOf(d) = ColOf(ApiCell) /\ p[d] = ApiChar
              THEN {"column"} ELSE {})
        \cup (IF \E d \in others : BlockOf(d) = BlockOf(ApiCell) /\ p[d] = ApiChar
              THEN {"region"} ELSE {})

\* C10: a request that passes all validation is answered valid: true
\* without a conflict field when the three checks pass, and otherwise
\* valid: false with a conflict list holding exactly the failing axes, each
\* once.
C10_ApiCheckResponse ==
    ApiPassed =>
        IF ApiFailingAxes = {}
        THEN result = [valid |-> TRUE]
        ELSE /\ DOMAIN result = {"valid", "conflict"}
             /\ result.valid = FALSE
             /\ Range(result.conflict) = ApiFailingAxes
             /\ Len(result.conflict) = Cardinality(ApiFailingAxes)

\* C10 witness: the value conflicts on the column and in the region but
\* not on the row (the functional test's C1 request on a grid with 1 at A1).
C10_Witness ==
    /\ ApiPassed
    /\ result = [valid |-> FALSE, conflict |-> <<"column", "region">>]
    /\ ApiFailingAxes = {"column", "region"}

----------------------------------------------------------------------------
(* checkSolve run on its own *)

InitCheckSolve ==
    /\ op = "checkSolve"
    /\ puzzle \in SolveInputs
    /\ grid = <<>>
    /\ stack = <<>>
    /\ result = NoResult
    /\ args = NoArgs
    /\ gen = NoGen
    /\ hist = NoHist

\* Lines 168-211: one call of checkSolve.
CheckSolve ==
    /\ op = "checkSolve"
    /\ result = NoResult
    /\ result' = checkSolve(puzzle)
    /\ UNCHANGED <<op, puzzle, grid, stack, args, gen, hist>>

NextCheckSolve == CheckSolve

SpecCheckSolve == InitCheckSolve /\ [][NextCheckSolve]_vars

CheckSolveDone == op = "checkSolve" /\ result # NoResult

\* C11: for every well-formed string of 81 characters with at least one
\* ".", checkSolve returns solved false with the error "Puzzle is not
\* solved" and no conflict list, wherever the "." is and whatever the other
\* cells hold.
C11_EmptyMarkerIsNotSolved ==
    (/\ CheckSolveDone
     /\ IsPuzzle(puzzle)
     /\ \E i \in 1..Len(puzzle) : puzzle[i] = ".")
        => result = [solved |-> FALSE, error |-> "Puzzle is not solved"]

\* C21: for every string of 81 characters that validate accepts (each "."
\* or a digit "0"-"9"), checkSolve returns solved true exactly when the
\* string has no empty marker and every row, column and region holds each
\* digit 1-9 once; a grid with the character "0" is never reported solved.
C21_SolvedIffCompleteValidGrid ==
    (/\ CheckSolveDone
     /\ Len(puzzle) = 81
     /\ \A i \in 1..Len(puzzle) : puzzle[i] \in PlaceDigits \cup {".", "0"})
        => (result.solved = TRUE <=> IsSolvedGrid(puzzle))

----------------------------------------------------------------------------
(* solve run again on the solution it returned *)

\* The caller keeps the input and the value of the first call and hands
\* the solution string to solve a second time.
SolveAgain ==
    /\ op = "solve"
    /\ stack = <<>>
    /\ args = NoArgs
    /\ "solution" \in DOMAIN result
    /\ args' = [input |-> puzzle, first |-> result]
    /\ puzzle' = result.solution
    /\ grid' = <<>>
    /\ stack' = <<EnterFrame>>
    /\ result' = NoResult
    /\ hist' = NoHist
    /\ UNCHANGED <<op, gen>>

NextAgain ==
    \/ SolveBegin
    \/ SolvePlaceSingle
    \/ SolveTryCandidate
    \/ SolveFinish
    \/ SolveAgain

SpecAgain == Init /\ [][NextAgain]_vars

\* C12: solve is idempotent on solved grids: when solve succeeded on x,
\* solve of the solution it returned gives that same solution string; and
\* for a complete grid g in which every row, column and region holds each
\* digit once, solve(g) returns g unchanged.
C12_SolveIsIdempotent ==
    /\ (SolveDone /\ args # NoArgs) => result = args.first
    /\ (SolveDone /\ args = NoArgs /\ IsSolvedGrid(puzzle))
          => result = [solution |-> puzzle]

\* The second call has returned the solution the first call found for a
\* puzzle that had empty cells.
C12_Witness ==
    /\ SolveDone
    /\ args # NoArgs
    /\ \E c \in Cells : args.input[c] = "."
    /\ IsSolvedGrid(args.first.solution)
    /\ result = [solution |-> args.first.solution]

----------------------------------------------------------------------------
(* The coordinate conversions run one after the other *)

\* Every cell index of the grid, and every pair of a character around the
\* row letters and a number around the column numbers.
CoordinateInputs ==
    { [cellNumber |-> i] : i \in 0..(PuzzleLength - 1) }
    \cup { [rowLetter |-> l, colNumber |-> c] :
                l \in Range(CodeUnits), c \in 0..(GridSide + 1) }

InitCoordinate ==
    /\ op = "coordinate"
    /\ puzzle = <<>>
    /\ grid = <<>>
    /\ stack = <<>>
    /\ result = NoResult
    /\ args \in CoordinateInputs
    /\ gen = NoGen
    /\ hist = NoHist

\* A cell index is turned into letter and number, and that pair back into
\* column, row and index.
IndexToLetterAndBack ==
    /\ op = "coordinate"
    /\ result = NoResult
    /\ "cellNumber" \in DOMAIN args
    /\ LET letterNumber == toLetterNumberCoordinate(args.cellNumber)
       IN  result' = [there |-> letterNumber,
                      back  |-> toBaseZeroCoordinate(letterNumber[1],
                                                     letterNumber[2])]
    /\ UNCHANGED <<op, puzzle, grid, stack, args, gen, hist>>

\* A letter and a number are turned into column, row and index, and the
\* index, when there is one, back into letter and number.
LetterToIndexAndBack ==
    /\ op = "coordinate"
    /\ result = NoResult
    /\ "rowLetter" \in DOMAIN args
    /\ LET coordinate == toBaseZeroCoordinate(args.rowLetter, args.colNumber)
       IN  result' = IF coordinate = InvalidCoordinate
                     THEN [there |-> coordinate]
                     ELSE [there |-> coordinate,
                           back  |-> toLetterNumberCoordinate(coordinate[3])]
    /\ UNCHANGED <<op, puzzle, grid, stack, args, gen, hist>>

NextCoordinate == IndexToLetterAndBack \/ LetterToIndexAndBack

SpecCoordinate == InitCoordinate /\ [][NextCoordinate]_vars

CoordinateDone == op = "coordinate" /\ result # NoResult

\* C13: the two conversions are mutually inverse on the grid: for every
\* index i of 0..80 the letter and number of i convert back to column
\* i mod 9, row floor(i / 9) and index i; and for every letter A-I and
\* column 1-9 the computed index converts back to that letter and column.
C13_ConversionsAreInverse ==
    /\ (CoordinateDone /\ "cellNumber" \in DOMAIN args)
          => LET i == args.cellNumber
             IN  result.back = <<i % 9, i \div 9, i>>
    /\ (/\ CoordinateDone
        /\ "rowLetter" \in DOMAIN args
        /\ args.rowLetter \in {"A", "B", "C", "D", "E", "F", "G", "H", "I"}
        /\ args.colNumber \in 1..9)
          => /\ DOMAIN result = {"there", "back"}
             /\ result.back = <<args.rowLetter, args.colNumber>>

\* The last cell of the grid went there and back, from either side.
C13_Witness ==
    /\ CoordinateDone
    /\ \/ /\ "cellNumber" \in DOMAIN args
          /\ args.cellNumber = 80
          /\ result = [there |-> <<"I", 9>>, back |-> <<8, 8, 80>>]
       \/ /\ "rowLetter" \in DOMAIN args
          /\ args = [rowLetter |-> "I", colNumber |-> 9]
          /\ result = [there |-> <<8, 8, 80>>, back |-> <<"I", 9>>]

----------------------------------------------------------------------------
(* The string generate returns *)

\* generate has returned and solve has not started on the string yet.
GenerateReturned ==
    op = "solve" /\ gen # NoGen /\ stack = <<EnterFrame>> /\ grid = <<>>

\* C14: every string generate returns has exactly 81 cells, each "1"-"9"
\* or ".", and is a complete grid (every row, column and region holds each
\* digit once) with some cells masked; hence its filled cells never
\* conflict and the grid it was masked from is a valid completion of it.
C14_GeneratedIsMaskedSolvedGrid ==
    GenerateReturned =>
        LET full == Join(gen.puzzle)
        IN  /\ Len(puzzle) = 81
            /\ \A c \in 1..Len(puzzle) : puzzle[c] \in PlaceDigits \cup {"."}
            /\ IsSolvedGrid(full)
            /\ \A c \in Cells : puzzle[c] = "." \/ puzzle[c] = full[c]
            /\ NoRepeat(puzzle)
            /\ Completes(full, puzzle)

\* generate returned a string that shows some cells and masks others of a
\* grid other than the reference one.
C14_Witness ==
    /\ GenerateReturned
    /\ Join(gen.puzzle) # TestSolution
    /\ \E c \in Cells : puzzle[c] = "."
    /\ \E c \in Cells : puzzle[c] # "."
    /\ IsSolvedGrid(Join(gen.puzzle))

----------------------------------------------------------------------------
(* The search of solve, step by step *)

\* The step is the return of the call on top of the stack.
Returns == op = "solve" /\ stack # <<>> /\ stack' = Pop

\* C15: backtracking restores the shared grid: whenever a recursive call
\* of solve returns with an empty cell left in the grid (a failed branch),
\* every cell is again as that call found it, empty where it was empty and
\* with the same digit where it was filled; so the caller tries its next
\* candidate on the grid on which it tried its first.
C15_FailedBranchRestoresGrid ==
    [][/\ (Returns /\ \E c \in DOMAIN grid' : grid'[c] = ".")
            => grid' = Top.entry
       /\ (/\ op = "solve" /\ stack # <<>>
           /\ Top.pc = "loop"
           /\ \E c \in DOMAIN grid : grid[c] = ".")
            => [grid EXCEPT ![Top.index + 1] = "."] = Top.entry]_vars

\* A call that had placed a digit has returned with an empty cell left,
\* and its caller is about to try a further candidate on the grid it
\* started with.
C15_Witness ==
    /\ op = "solve" /\ stack # <<>>
    /\ hist.failed
    /\ Top.pc = "loop"
    /\ Top.k >= 1 /\ Top.k < Len(Top.possible)
    /\ [grid EXCEPT ![Top.index + 1] = "."] = Top.entry
    /\ Top.entry # puzzle

\* C16: every digit solve writes into a cell passed the combined check
\* against the grid as it stood at the moment of the write (no other cell
\* of the row, the column or the region held it); so when the givens are
\* conflict-free, no grid reached during the search repeats a digit in a
\* row, column or region.
C16_WritesAreChecked ==
    [][/\ \A c \in DOMAIN grid :
            (grid'[c] # grid[c] /\ grid'[c] # ".")
                => \A d \in Peers(c) : grid[d] # grid'[c]
       /\ (op = "solve" /\ IsPuzzle(puzzle) /\ NoRepeat(puzzle))
            => NoRepeat(grid')]_vars

\* Deep in the search of a conflict-free puzzle, after a failed branch:
\* forty cells and more have been written and no digit is repeated.
C16_Witness ==
    /\ op = "solve" /\ stack # <<>>
    /\ IsPuzzle(puzzle) /\ NoRepeat(puzzle)
    /\ hist.failed
    /\ Len(stack) > 40
    /\ Cardinality({ c \in Cells : grid[c] # puzzle[c] }) >= 40
    /\ NoRepeat(grid)

\* C17: once some call has filled the last empty cell, no cell of the grid
\* is written again while the recursion unwinds, and the string solve
\* returns is the first complete grid the search reached.
C17_NoWriteAfterComplete ==
    [][/\ (/\ op = "solve"
           /\ Len(grid) = 81
           /\ \A c \in DOMAIN grid : grid[c] # ".")
            => grid' = grid
       /\ (op = "solve" /\ stack' = <<>> /\ "solution" \in DOMAIN result')
            => result'.solution = hist'.firstFull]_vars

\* The puzzle p with the cells before c filled in as in s.
FilledBefore(s, p, c) == [d \in Cells |-> IF d < c THEN s[d] ELSE p[d]]

\* No completion of p comes before s in lexicographic order: at no empty
\* cell of p can a smaller digit than that of s be continued to a
\* completion, the cells before it being as in s.
NoSmallerCompletion(s, p) ==
    \A c \in Cells :
        p[c] = "." =>
            \A w \in PlaceDigits :
                ToNumber(w) < ToNumber(s[c]) =>
                    LET q == FilledBefore(s, p, c)
                    IN  ~(/\ \A d \in Peers(c) : q[d] # w
                          /\ CompletionExists([q EXCEPT ![c] = w]))

\* C18: solve works on the first empty cell in row-major order and tries
\* its candidates in ascending order; so for a conflict-free puzzle with a
\* completion the solution it returns is the lexicographically smallest
\* completion.
C18_SmallestCompletion ==
    /\ (op = "solve" /\ stack # <<>> /\ Top.pc # "enter")
          => /\ Top.entry[Top.index + 1] = "."
             /\ \A d \in 1..Top.index : Top.entry[d] # "."
             /\ \A i, j \in 1..Len(Top.possible) :
                    i < j => ToNumber(Top.possible[i]) < ToNumber(Top.possible[j])
    /\ (SolveDone /\ HasCompletion(puzzle))
          => /\ DOMAIN result = {"solution"}
             /\ Completes(result.solution, puzzle)
             /\ NoSmallerCompletion(result.solution, puzzle)

\* The puzzle has two completions, the grid generate masked and a smaller
\* one, and solve returned the smaller one.
C18_Witness ==
    /\ SolveDone /\ gen # NoGen
    /\ DOMAIN result = {"solution"}
    /\ Completes(Join(gen.puzzle), puzzle)
    /\ Completes(result.solution, puzzle)
    /\ \E c \in Cells :
          /\ \A d \in 1..(c - 1) : result.solution[d] = Join(gen.puzzle)[d]
          /\ ToNumber(result.solution[c]) < ToNumber(Join(gen.puzzle)[c])

----------------------------------------------------------------------------
(* Termination of solve *)

Empties(g) == Cardinality({ c \in DOMAIN g : g[c] = "." })

\* The grid the call of frame j found on entry.
EntryOf(j) == IF stack[j].pc = "enter" THEN grid ELSE stack[j].entry

\* The calls below the first one number at most the empty cells of the
\* input, and the innermost call found fewer empty cells than its caller.
DepthBounded ==
    (op = "solve" /\ Len(stack) > 1)
        => /\ Len(stack) - 1 <= Empties(puzzle)
           /\ Len(stack) - 1 <= 81
           /\ Empties(EntryOf(Len(stack))) < Empties(EntryOf(Len(stack) - 1))

\* What a call still has to do: everything, the candidates not tried yet
\* and the return, or the return alone.
Rank(frame) ==
    IF frame.pc = "enter" THEN 11
    ELSE IF frame.pc = "loop" THEN Len(frame.possible) - frame.k + 1
    ELSE 0

Ranks(frames) == [j \in 1..Len(frames) |-> Rank(frames[j])]

\* a comes before b in lexicographic order (a proper prefix comes first).
LexLess(a, b) ==
    \E i \in 1..Len(b) :
        /\ i <= Len(a) + 1
        /\ \A j \in 1..(i - 1) : a[j] = b[j]
        /\ i <= Len(a) => a[i] < b[i]

\* A call that has not returned has a step to take.
CanStep ==
    (op = "solve" /\ stack # <<>>)
        => \/ Top.pc = "enter"
           \/ Top.pc = "after"
           \/ Top.pc = "loop" /\ Top.k <= Len(Top.possible)

\* C19: solve terminates on every input, and its recursion is never deeper
\* than the number of empty cells of the input (at most 81): each recursive
\* call is made on a grid with strictly fewer empty cells than its caller
\* found on entry.  Termination: every step lowers, in lexicographic order,
\* the word of what the calls on the stack still have to do, a word of at
\* most 82 numbers of 0..11; and a call that has not returned can step.
C19_SolveTerminates ==
    [][/\ DepthBounded'
       /\ LexLess(Ranks(stack'), Ranks(stack))
       /\ CanStep']_vars

\* The search is as deep as the puzzle has empty cells, fifty and more,
\* every call having found fewer empty cells than its caller.
C19_Witness ==
    /\ op = "solve"
    /\ Empties(puzzle) >= 50
    /\ Len(stack) - 1 = Empties(puzzle)
    /\ Empties(EntryOf(Len(stack))) < Empties(EntryOf(Len(stack) - 1))

----------------------------------------------------------------------------
(* The loop of generate, step by step *)

\* The digit v is already in the row, the column or the region of cell c
\* among the digits placed so far.
Clashes(numbers, c, v) ==
    \E d \in Peers(c) : d <= Len(numbers) /\ numbers[d] = v

\* The grid is as long as the cursor says and every hidden index is below
\* the cursor.
CursorInStep(g) ==
    /\ Len(g.puzzle) = g.cursor
    /\ \A h \in 1..Len(g.hidden) : g.hidden[h] < g.cursor

\* C20: generate declares a cell a dead end only after all nine digits
\* have been drawn and rejected; on a dead end the grid and the hidden
\* marks are emptied and filling resumes at cell 0 with the full pool;
\* otherwise exactly one checked digit is appended and the cursor advances
\* by one; so at every start of the outer loop the length of the grid
\* equals the cursor and every hidden index is below the cursor.
C20_DeadEndAfterNineRejections ==
    [][(op = "generate" /\ gen' # gen) =>
        /\ CursorInStep(gen')
        /\ \/ \* a dead end
              /\ gen.cursor > 0 /\ gen'.cursor = 0
              /\ Len(gen.digits) = 1
              /\ \A v \in 1..9 : Clashes(gen.puzzle, gen.cursor + 1, v)
              /\ gen'.puzzle = <<>> /\ gen'.hidden = <<>>
              /\ gen'.digits = <<1, 2, 3, 4, 5, 6, 7, 8, 9>>
           \/ \* a digit is placed
              /\ gen'.cursor = gen.cursor + 1
              /\ \E v \in Range(gen.digits) :
                    /\ ~Clashes(gen.puzzle, gen.cursor + 1, v)
                    /\ gen'.puzzle = Append(gen.puzzle, v)
              /\ gen'.hidden \in {gen.hidden, Append(gen.hidden, gen.cursor)}
              /\ gen'.digits = <<1, 2, 3, 4, 5, 6, 7, 8, 9>>
           \/ \* a digit is rejected and others are left
              /\ gen'.cursor = gen.cursor
              /\ gen'.puzzle = gen.puzzle /\ gen'.hidden = gen.hidden
              /\ Len(gen'.digits) = Len(gen.digits) - 1
              /\ Len(gen'.digits) > 0
              /\ \E v \in Range(gen.digits) \ Range(gen'.digits) :
                    Clashes(gen.puzzle, gen.cursor + 1, v)]_vars

\* After a dead end generate has started over and is past cell 0 again,
\* with a cell hidden.
C20_Witness ==
    /\ op = "generate"
    /\ gen.restarted
    /\ gen.cursor > 0
    /\ gen.hidden # <<>>
    /\ CursorInStep(gen)

====
